---- MODULE Spec2Model ----
(***************************************************************************)
(* State-machine model of the Cog shell (src/core/cog-shell.c) and of the  *)
(* Dinghy launcher's option handling (src/dinghy.c).                       *)
(*                                                                         *)
(* Spec          the shell: set_request_handler, create-view listeners,    *)
(*               startup.                                                  *)
(* LauncherSpec  the launcher: option parsing and on_handle_local_options. *)
(***************************************************************************)
EXTENDS Integers, Sequences, FiniteSets, TLC

VARIABLES
    \* ---- CogShellPrivate (cog-shell.c:21-29) and its environment ----
    pc,                \* "constructed" | "running" | "aborted"
    web_settings,      \* priv->web_settings
    web_context,       \* priv->web_context
    web_view,          \* priv->web_view
    request_handlers,  \* priv->request_handlers: scheme -> RequestHandlerMapEntry
    listeners,         \* create-view handlers connected by the application, in order
    register_calls,    \* scheme -> number of webkit_web_context_register_uri_scheme calls
    notified,          \* values of the web-view property seen by notify observers
    ran,               \* create-view handlers run by the emission (0 = class handler)
    history,           \* accepted set_request_handler calls, oldest first
    at_emit,           \* registry and registration calls when create-view was emitted
    \* ---- launcher (dinghy.c) ----
    lpc,               \* "start" | "parsed" | "handled"
    argv,              \* command line: [flags, positional]
    env,               \* value of DINGHY_URL (pointer to a byte string)
    charset,           \* character set of the process locale
    fs,                \* canonical absolute paths that exist
    appid,             \* g_application_get_application_id
    s_options,         \* the static s_options struct
    status,            \* value returned by on_handle_local_options
    stdout,            \* lines printed with g_print
    stderr,            \* messages printed with g_printerr
    uri,               \* the local variable uri of on_handle_local_options
    home_uri,          \* the launcher's home URI (pointer to a byte string)
    set_home_uri_calls \* number of dy_launcher_set_home_uri calls

shellVars == <<pc, web_settings, web_context, web_view, request_handlers,
               listeners, register_calls, notified, ran, history, at_emit>>
launcherVars == <<lpc, argv, env, charset, fs, appid, s_options, status,
                  stdout, stderr, uri, home_uri, set_home_uri_calls>>
vars == <<shellVars, launcherVars>>

----------------------------------------------------------------------------
(* Bounds *)

MaxListeners == 2
MaxCalls == 3
MaxLen == 2
MaxArgs == 2

----------------------------------------------------------------------------
(* Shell: objects *)

NULL == "NULL"

Schemes == {"s1", "s2"}
Handlers == {"h1", "h2"}

SettingsObjs == {"shell_settings", "other_settings"}
ContextObjs == {"shell_context", "other_context"}

\* A WebKitWebView is known by the settings and the context it was built
\* with.  The NULL view answers NULL to both getters (g_return_val_if_fail).
NULL_VIEW == [settings |-> NULL, context |-> NULL]
Views == [settings : SettingsObjs, context : ContextObjs]

webkit_web_view_get_settings(view) == view.settings
webkit_web_view_get_context(view) == view.context

cog_shell_get_web_settings == web_settings
cog_shell_get_web_context == web_context
cog_shell_get_web_view == web_view

cog_shell_create_view_base ==
    [settings |-> cog_shell_get_web_settings,
     context |-> cog_shell_get_web_context]

request_handler_map_entry_new(handler) ==
    [handler |-> handler, registered |-> FALSE]

request_handler_map_entry_register_FlagInverted(scheme, entry, context, calls) ==
    IF context # NULL /\ entry.registered
    THEN [calls EXCEPT ![scheme] = @ + 1]
    ELSE calls

\* The effect on the context's registration calls; the entry itself is
\* left as it was (its registered flag is read, never written).
request_handler_map_entry_register(scheme, entry, context, calls) ==
    IF context # NULL /\ ~entry.registered
    THEN [calls EXCEPT ![scheme] = @ + 1]
    ELSE calls

----------------------------------------------------------------------------
(* Shell: the create-view signal *)

\* GLib's accumulator: copy the handler's return value, stop the emission.
g_signal_accumulator_first_wins(return_accu, handler_return) ==
    [accu |-> handler_return, continue |-> FALSE]

RECURSIVE EmitFrom(_, _, _, _)
EmitFrom(handlers, i, accu, ranSoFar) ==
    IF i > Len(handlers)
    THEN [value |-> accu, ran |-> ranSoFar]
    ELSE LET r == g_signal_accumulator_first_wins(accu, handlers[i])
             id == IF i = Len(handlers) THEN 0 ELSE i
         IN IF r.continue
            THEN EmitFrom(handlers, i + 1, r.accu, Append(ranSoFar, id))
            ELSE [value |-> r.accu, ran |-> Append(ranSoFar, id)]

\* G_SIGNAL_RUN_LAST: connected handlers first, the class handler last.
EmitCreateView ==
    EmitFrom(listeners \o <<cog_shell_create_view_base>>, 1, NULL_VIEW, <<>>)

----------------------------------------------------------------------------
(* Shell: operations *)

ShellInit ==
    /\ pc = "constructed"
    /\ web_settings = "shell_settings"
    /\ web_context = "shell_context"
    /\ web_view = NULL_VIEW
    /\ request_handlers = [s \in {} |-> request_handler_map_entry_new(NULL)]
    /\ listeners = <<>>
    /\ register_calls = [s \in Schemes |-> 0]
    /\ notified = <<>>
    /\ ran = <<>>
    /\ history = <<>>
    /\ at_emit = <<>>

\* g_signal_connect (shell, "create-view", ...) by the embedding application.
ConnectCreateView(view) ==
    /\ pc = "constructed"
    /\ Len(listeners) < MaxListeners
    /\ listeners' = Append(listeners, view)
    /\ UNCHANGED <<pc, web_settings, web_context, web_view, request_handlers,
                   register_calls, notified, ran, history, at_emit>>

SetEntry_KeepsOldHandler(table, scheme, handler) ==
    IF scheme \notin DOMAIN table
    THEN [s \in DOMAIN table \cup {scheme} |->
            IF s = scheme THEN request_handler_map_entry_new(handler)
                          ELSE table[s]]
    ELSE table

\* Lines 498-507: look the scheme up, insert a new entry or swap the handler.
SetEntry(table, scheme, handler) ==
    IF scheme \notin DOMAIN table
    THEN [s \in DOMAIN table \cup {scheme} |->
            IF s = scheme THEN request_handler_map_entry_new(handler)
                          ELSE table[s]]
    ELSE IF table[scheme].handler # handler
         THEN [table EXCEPT ![scheme].handler = handler]
         ELSE table

cog_shell_set_request_handler(scheme, handler) ==
    /\ pc \in {"constructed", "running"}
    /\ IF scheme = NULL \/ handler = NULL
       THEN UNCHANGED <<request_handlers, register_calls, history>>
       ELSE /\ Len(history) < MaxCalls
            /\ request_handlers' = SetEntry(request_handlers, scheme, handler)
            /\ register_calls' =
                   request_handler_map_entry_register(
                       scheme, request_handlers'[scheme], web_context,
                       register_calls)
            /\ history' = Append(history, [scheme |-> scheme, handler |-> handler])
    /\ UNCHANGED <<pc, web_settings, web_context, web_view, listeners,
                   notified, ran, at_emit>>

\* g_hash_table_foreach (request_handlers, request_handler_map_entry_register, context)
RECURSIVE RegisterAll(_, _, _, _)
RegisterAll(table, todo, context, calls) ==
    IF todo = {} THEN calls
    ELSE LET s == CHOOSE x \in todo : TRUE
         IN RegisterAll(table, todo \ {s}, context,
                        request_handler_map_entry_register(s, table[s], context, calls))

StartupAsserts_SettingsOnly(view, settings, context) ==
    webkit_web_view_get_settings(view) = settings

\* The two g_assert lines that end cog_shell_startup_base.
StartupAsserts(view, settings, context) ==
    /\ webkit_web_view_get_settings(view) = settings
    /\ webkit_web_view_get_context(view) = context

cog_shell_startup ==
    /\ pc = "constructed"
    /\ LET registered == RegisterAll(request_handlers, DOMAIN request_handlers,
                                     web_context, register_calls)
           emitted == EmitCreateView
       IN /\ at_emit' = Append(at_emit, [schemes |-> DOMAIN request_handlers,
                                         calls |-> registered])
          /\ register_calls' = registered
          /\ web_view' = emitted.value
          /\ ran' = emitted.ran
          /\ notified' = Append(notified, emitted.value)
          /\ pc' = IF StartupAsserts(emitted.value, web_settings, web_context)
                   THEN "running" ELSE "aborted"
    /\ UNCHANGED <<web_settings, web_context, request_handlers, listeners, history>>

----------------------------------------------------------------------------
(* Launcher: strings, pointers, exit statuses *)

\* A string is a sequence of bytes.  The alphabet: '/' (47), ':' (58),
\* 'a' (97), and the two bytes 0xC3 (195), 0xA9 (169) of UTF-8 "e acute".
Bytes == {47, 58, 97, 169, 195}
Strings(n) == UNION {[1..k -> Bytes] : k \in 0..n}

\* A char* is <<>> when NULL and <<s>> when it points to the string s.
NULL_STR == <<>>
Ptr(s) == <<s>>

EXIT_SUCCESS == 0
EXIT_FAILURE == 1
CONTINUE_STARTUP == -1

DY_VERSION_STRING == "DY_VERSION_STRING"
ERR_NO_URL == "URL not passed in the command line, and DINGHY_URL not set"
ERR_MULTIPLE == "Cannot load more than one URL."
ERR_ENCODING == "URI is invalid UTF-8"

Charsets == {"UTF-8", "ISO-8859-1", "ANSI_X3.4-1968"}

\* The working directory "/a" and the file systems the launcher may run on.
Cwd == <<47, 97>>
FsChoices ==
    { {<<47>>, <<47, 97>>},
      {<<47>>, <<47, 97>>, <<47, 97, 47, 97>>, <<47, 195, 169>>,
       <<47, 97, 47, 195, 169>>} }

Filler(n) == [i \in 1..n |-> <<97>>]
Positionals ==
    {<<>>} \cup
    {<<s>> \o Filler(n) : s \in Strings(MaxLen), n \in 0..(MaxArgs - 1)}
EnvValues == {<<>>, <<97, 58>>, <<47, 97>>, <<169>>}

----------------------------------------------------------------------------
(* Launcher: GIO and GLib helpers used by on_handle_local_options *)

IsAlpha(b) == b \in 65..90 \/ b \in 97..122
IsSchemeChar(b) == IsAlpha(b) \/ b \in 48..57 \/ b \in {43, 45, 46}

g_path_is_absolute(s) == Len(s) >= 1 /\ s[1] = 47

has_valid_scheme(s) ==
    /\ Len(s) >= 1
    /\ IsAlpha(s[1])
    /\ \E k \in 2..Len(s) :
           /\ s[k] = 58
           /\ \A j \in 2..(k - 1) : IsSchemeChar(s[j])

\* The path segments between separators, empty ones dropped.
RECURSIVE Segments(_, _, _)
Segments(s, i, cur) ==
    IF i > Len(s)
    THEN IF cur = <<>> THEN <<>> ELSE <<cur>>
    ELSE IF s[i] = 47
         THEN (IF cur = <<>> THEN <<>> ELSE <<cur>>) \o Segments(s, i + 1, <<>>)
         ELSE Segments(s, i + 1, Append(cur, s[i]))

RECURSIVE JoinSegments(_)
JoinSegments(segs) ==
    IF segs = <<>> THEN <<>>
    ELSE <<47>> \o segs[1] \o JoinSegments(Tail(segs))

\* Repeated separators become one and a trailing one is dropped.
CollapsePath(s) ==
    LET segs == Segments(s, 1, <<>>)
    IN IF segs = <<>> THEN <<47>> ELSE JoinSegments(segs)

\* Exactly two leading separators are kept, as POSIX allows.
g_canonicalize_filename(s) ==
    LET twoLeading == /\ Len(s) >= 2 /\ s[1] = 47 /\ s[2] = 47
                      /\ (Len(s) >= 3 => s[3] # 47)
    IN IF twoLeading THEN <<47>> \o CollapsePath(s) ELSE CollapsePath(s)

g_build_filename(dir, name) ==
    IF name = <<>> THEN dir
    ELSE IF dir[Len(dir)] = 47 THEN dir \o name ELSE dir \o <<47>> \o name

g_file_new_for_commandline_arg(arg) ==
    IF g_path_is_absolute(arg)
    THEN [native |-> TRUE, path |-> g_canonicalize_filename(arg)]
    ELSE IF has_valid_scheme(arg)
         THEN [native |-> FALSE, path |-> arg]
         ELSE [native |-> TRUE,
               path |-> g_canonicalize_filename(g_build_filename(Cwd, arg))]

g_file_is_native(file) == file.native
g_file_query_exists(file, files) == CollapsePath(file.path) \in files

HexDigit(n) == IF n < 10 THEN 48 + n ELSE 55 + n
IsUnreservedInPath(b) ==
    \/ IsAlpha(b) \/ b \in 48..57
    \/ b \in {33, 36, 38, 39, 40, 41, 42, 43, 44, 45, 46, 47, 58, 59, 61, 64, 95, 126}

RECURSIVE EscapePath(_)
EscapePath(s) ==
    IF s = <<>> THEN <<>>
    ELSE (IF IsUnreservedInPath(s[1]) THEN <<s[1]>>
          ELSE <<37, HexDigit(s[1] \div 16), HexDigit(s[1] % 16)>>)
         \o EscapePath(Tail(s))

\* "file://" followed by the escaped path.
g_file_get_uri(file) ==
    <<102, 105, 108, 101, 58, 47, 47>> \o EscapePath(file.path)

IsContinuation(b) == b \in 128..191

RECURSIVE g_utf8_validate(_, _)
g_utf8_validate(s, i) ==
    IF i > Len(s) THEN TRUE
    ELSE IF s[i] < 128 THEN g_utf8_validate(s, i + 1)
    ELSE IF s[i] \in 194..223
         THEN /\ i + 1 <= Len(s) /\ IsContinuation(s[i + 1])
              /\ g_utf8_validate(s, i + 2)
    ELSE IF s[i] \in 224..239
         THEN /\ i + 2 <= Len(s)
              /\ IsContinuation(s[i + 1]) /\ IsContinuation(s[i + 2])
              /\ g_utf8_validate(s, i + 3)
    ELSE IF s[i] \in 240..244
         THEN /\ i + 3 <= Len(s)
              /\ IsContinuation(s[i + 1]) /\ IsContinuation(s[i + 2])
              /\ IsContinuation(s[i + 3])
              /\ g_utf8_validate(s, i + 4)
    ELSE FALSE

RECURSIVE Latin1ToUtf8(_)
Latin1ToUtf8(s) ==
    IF s = <<>> THEN <<>>
    ELSE (IF s[1] < 128 THEN <<s[1]>>
          ELSE <<192 + (s[1] \div 64), 128 + (s[1] % 64)>>)
         \o Latin1ToUtf8(Tail(s))

\* Converts from the locale's character set; NULL when the input is not
\* valid text in that character set.
g_locale_to_utf8(s, cs) ==
    IF cs = "UTF-8"
    THEN IF g_utf8_validate(s, 1) THEN Ptr(s) ELSE NULL_STR
    ELSE IF cs = "ISO-8859-1"
    THEN Ptr(Latin1ToUtf8(s))
    ELSE IF \A i \in 1..Len(s) : s[i] < 128 THEN Ptr(s) ELSE NULL_STR

----------------------------------------------------------------------------
(* Launcher: on_handle_local_options *)

\* Lines 33-41.
HandleInfoOptions_AppidFirst(opts, app) ==
    IF opts.print_appid
    THEN [done |-> TRUE, out |-> IF app # NULL_STR THEN <<app[1]>> ELSE <<>>]
    ELSE IF opts.version
    THEN [done |-> TRUE, out |-> <<DY_VERSION_STRING>>]
    ELSE [done |-> FALSE, out |-> <<>>]

HandleInfoOptions(opts, app) ==
    IF opts.version
    THEN [done |-> TRUE, out |-> <<DY_VERSION_STRING>>]
    ELSE IF opts.print_appid
    THEN [done |-> TRUE, out |-> IF app # NULL_STR THEN <<app[1]>> ELSE <<>>]
    ELSE [done |-> FALSE, out |-> <<>>]

\* Lines 43-54.  arguments is <<>> when s_options.arguments is NULL.
ResolveUri_EnvFirst(arguments, environ) ==
    IF environ # NULL_STR
    THEN [ok |-> TRUE, uri |-> environ, err |-> <<>>]
    ELSE IF arguments = <<>>
    THEN [ok |-> FALSE, uri |-> NULL_STR, err |-> <<ERR_NO_URL>>]
    ELSE IF Len(arguments) > 1
    THEN [ok |-> FALSE, uri |-> NULL_STR, err |-> <<ERR_MULTIPLE>>]
    ELSE [ok |-> TRUE, uri |-> Ptr(arguments[1]), err |-> <<>>]

ResolveUri_NoCountCheck(arguments, environ) ==
    IF arguments = <<>>
    THEN IF environ = NULL_STR
         THEN [ok |-> FALSE, uri |-> NULL_STR, err |-> <<ERR_NO_URL>>]
         ELSE [ok |-> TRUE, uri |-> environ, err |-> <<>>]
    ELSE [ok |-> TRUE, uri |-> Ptr(arguments[1]), err |-> <<>>]

ResolveUri(arguments, environ) ==
    IF arguments = <<>>
    THEN IF environ = NULL_STR
         THEN [ok |-> FALSE, uri |-> NULL_STR, err |-> <<ERR_NO_URL>>]
         ELSE [ok |-> TRUE, uri |-> environ, err |-> <<>>]
    ELSE IF Len(arguments) > 1
    THEN [ok |-> FALSE, uri |-> NULL_STR, err |-> <<ERR_MULTIPLE>>]
    ELSE [ok |-> TRUE, uri |-> Ptr(arguments[1]), err |-> <<>>]

\* Lines 56-68.
ConvertUri_NoConversion(value, cs, files) ==
    LET file == g_file_new_for_commandline_arg(value)
    IN IF g_file_is_native(file) /\ g_file_query_exists(file, files)
       THEN [ok |-> TRUE, utf8_uri |-> Ptr(g_file_get_uri(file))]
       ELSE [ok |-> TRUE, utf8_uri |-> Ptr(value)]

ConvertUri(value, cs, files) ==
    LET file == g_file_new_for_commandline_arg(value)
    IN IF g_file_is_native(file) /\ g_file_query_exists(file, files)
       THEN [ok |-> TRUE, utf8_uri |-> Ptr(g_file_get_uri(file))]
       ELSE LET utf8_uri == g_locale_to_utf8(value, cs)
            IN IF utf8_uri = NULL_STR
               THEN [ok |-> FALSE, utf8_uri |-> NULL_STR]
               ELSE [ok |-> TRUE, utf8_uri |-> utf8_uri]

\* The outcome of the whole handler: the status it returns, what it
\* prints, what it leaves in s_options.arguments, and the arguments of its
\* dy_launcher_set_home_uri calls.
Outcome(st, out, err, local, arguments, homes) ==
    [status |-> st, out |-> out, err |-> err, uri |-> local,
     arguments |-> arguments, homes |-> homes]

on_handle_local_options_SetsOnEncodingError(opts, app, environ, cs, files) ==
    LET info == HandleInfoOptions(opts, app)
        res == ResolveUri(opts.arguments, environ)
        conv == ConvertUri(res.uri[1], cs, files)
    IN IF info.done
       THEN Outcome(EXIT_SUCCESS, info.out, <<>>, NULL_STR, opts.arguments, <<>>)
       ELSE IF ~res.ok
       THEN Outcome(EXIT_FAILURE, <<>>, res.err, NULL_STR, opts.arguments, <<>>)
       ELSE IF ~conv.ok
       THEN Outcome(EXIT_FAILURE, <<>>, <<ERR_ENCODING>>, res.uri,
                    opts.arguments, <<res.uri[1]>>)
       ELSE Outcome(CONTINUE_STARTUP, <<>>, <<>>, res.uri, <<>>,
                    <<conv.utf8_uri[1]>>)

on_handle_local_options(opts, app, environ, cs, files) ==
    LET info == HandleInfoOptions(opts, app)
        res == ResolveUri(opts.arguments, environ)
        conv == ConvertUri(res.uri[1], cs, files)
    IN IF info.done
       THEN Outcome(EXIT_SUCCESS, info.out, <<>>, NULL_STR, opts.arguments, <<>>)
       ELSE IF ~res.ok
       THEN Outcome(EXIT_FAILURE, <<>>, res.err, NULL_STR, opts.arguments, <<>>)
       ELSE IF ~conv.ok
       THEN Outcome(EXIT_FAILURE, <<>>, <<ERR_ENCODING>>, res.uri,
                    opts.arguments, <<>>)
       ELSE Outcome(CONTINUE_STARTUP, <<>>, <<>>, res.uri, <<>>,
                    <<conv.utf8_uri[1]>>)

----------------------------------------------------------------------------
(* Launcher: state machine *)

LauncherInit ==
    /\ lpc = "start"
    /\ argv \in [flags : SUBSET {"--version", "--print-appid"},
                 positional : Positionals]
    /\ env \in {NULL_STR} \cup {Ptr(s) : s \in EnvValues}
    /\ charset \in Charsets
    /\ fs \in FsChoices
    /\ appid \in {NULL_STR, Ptr("com.igalia.Dinghy")}
    /\ s_options = [version |-> FALSE, print_appid |-> FALSE, arguments |-> <<>>]
    /\ status = 0
    /\ stdout = <<>>
    /\ stderr = <<>>
    /\ uri = NULL_STR
    /\ home_uri = NULL_STR
    /\ set_home_uri_calls = 0

\* g_application_run parses the command line with s_cli_options (lines 19-25).
ParseOptions ==
    /\ lpc = "start"
    /\ s_options' = [version |-> "--version" \in argv.flags,
                     print_appid |-> "--print-appid" \in argv.flags,
                     arguments |-> argv.positional]
    /\ lpc' = "parsed"
    /\ UNCHANGED <<argv, env, charset, fs, appid, status, stdout, stderr, uri,
                   home_uri, set_home_uri_calls>>

HandleLocalOptions ==
    /\ lpc = "parsed"
    /\ LET o == on_handle_local_options(s_options, appid, env, charset, fs)
       IN /\ status' = o.status
          /\ stdout' = stdout \o o.out
          /\ stderr' = stderr \o o.err
          /\ uri' = o.uri
          /\ s_options' = [s_options EXCEPT !.arguments = o.arguments]
          /\ home_uri' = IF o.homes = <<>> THEN home_uri
                         ELSE Ptr(o.homes[Len(o.homes)])
          /\ set_home_uri_calls' = set_home_uri_calls + Len(o.homes)
    /\ lpc' = "handled"
    /\ UNCHANGED <<argv, env, charset, fs, appid>>

LauncherIdle ==
    /\ lpc = "start"
    /\ argv = [flags |-> {}, positional |-> <<>>]
    /\ env = <<>>
    /\ charset = "UTF-8"
    /\ fs = {}
    /\ appid = <<>>
    /\ s_options = [version |-> FALSE, print_appid |-> FALSE, arguments |-> <<>>]
    /\ status = 0
    /\ stdout = <<>>
    /\ stderr = <<>>
    /\ uri = <<>>
    /\ home_uri = <<>>
    /\ set_home_uri_calls = 0

Init == ShellInit /\ LauncherIdle

Next ==
    \/ \E view \in Views \cup {NULL_VIEW} :
           ConnectCreateView(view) /\ UNCHANGED launcherVars
    \/ \E scheme \in Schemes \cup {NULL}, handler \in Handlers \cup {NULL} :
           cog_shell_set_request_handler(scheme, handler) /\ UNCHANGED launcherVars
    \/ cog_shell_startup /\ UNCHANGED launcherVars

Spec == Init /\ [][Next]_vars

LauncherNext ==
    \/ ParseOptions /\ UNCHANGED shellVars
    \/ HandleLocalOptions /\ UNCHANGED shellVars

LauncherStart == ShellInit /\ LauncherInit

LauncherSpec == LauncherStart /\ [][LauncherNext]_vars

----------------------------------------------------------------------------
(* Properties of the shell, checked under Spec *)

Started == pc # "constructed"
Mismatched(view) ==
    view \in Views /\ (view.settings # web_settings \/ view.context # web_context)

\* C1: the context is asked to register any given scheme at most once,
\* whatever sequence of set_request_handler calls and startup happens.
C1_RegisteredAtMostOnce ==
    \A s \in Schemes : register_calls[s] <= 1

\* The first non-empty view among the listeners' return values, if any.
RECURSIVE FirstNonEmpty(_)
FirstNonEmpty(views) ==
    IF views = <<>> THEN NULL_VIEW
    ELSE IF views[1] # NULL_VIEW THEN views[1]
    ELSE FirstNonEmpty(Tail(views))

\* C2: after startup the shell keeps the first non-empty view any listener
\* returned; when no listener supplies one (none connected, or all return
\* empty) it holds a default view built from its own settings and context,
\* the view is never empty and startup has not failed.
C2_FirstNonEmptyOrDefault ==
    Started =>
        IF FirstNonEmpty(listeners) # NULL_VIEW
        THEN web_view = FirstNonEmpty(listeners)
        ELSE /\ web_view = [settings |-> web_settings, context |-> web_context]
             /\ web_view # NULL_VIEW
             /\ pc = "running"

\* C3: when a create-view listener returns a view whose settings or context
\* differ from the shell's own, startup ends in the assertion failure; it
\* never returns normally holding such a view.
C3_MismatchedViewAborts ==
    /\ \A i \in DOMAIN ran :
           (ran[i] # 0 /\ Mismatched(listeners[ran[i]])) => pc = "aborted"
    /\ pc = "running" => ~Mismatched(web_view)

C3_Witness ==
    /\ pc = "aborted"
    /\ ran = <<1>>
    /\ listeners[1] = [settings |-> "shell_settings", context |-> "other_context"]
    /\ web_view = listeners[1]

SchemesSet == {history[i].scheme : i \in DOMAIN history}
LastHandler(s) ==
    LET last == CHOOSE i \in DOMAIN history :
                    /\ history[i].scheme = s
                    /\ \A j \in DOMAIN history : history[j].scheme = s => j <= i
    IN history[last].handler

C4_Registry ==
    /\ DOMAIN request_handlers = SchemesSet
    /\ \A s \in DOMAIN request_handlers :
           request_handlers[s].handler = LastHandler(s)

C4_Step ==
    \A s \in Schemes, h \in Handlers :
        cog_shell_set_request_handler(s, h) =>
            /\ pc' = pc
            /\ \A t \in DOMAIN request_handlers \ {s} :
                   /\ t \in DOMAIN request_handlers'
                   /\ request_handlers'[t] = request_handlers[t]
            /\ (s \in DOMAIN request_handlers /\ request_handlers[s].handler = h)
                   => request_handlers' = request_handlers

C11_Registered ==
    \A i \in DOMAIN at_emit :
        \A s \in at_emit[i].schemes : at_emit[i].calls[s] >= 1

C11_Step ==
    cog_shell_startup =>
        /\ Len(at_emit') = 1
        /\ ran' # <<>>
        /\ at_emit'[1].schemes = DOMAIN request_handlers
        /\ at_emit'[1].calls = register_calls'

C11_RegisteredBeforeCreateView ==
    []C11_Registered /\ [][C11_Step]_vars

C11_Witness ==
    /\ pc = "running"
    /\ ran = <<1>>
    /\ Len(at_emit) = 1
    /\ at_emit[1].schemes = Schemes
    /\ \A s \in Schemes : at_emit[1].calls[s] >= 1
    /\ Len(history) = 2

----------------------------------------------------------------------------
(* Properties of the launcher, checked under LauncherSpec *)

Handled == lpc = "handled"
NoInfoOption == argv.flags = {}

\* C5: without --version or --print-appid and with at most one positional
\* argument, the start URL is the positional argument when given (also when
\* DINGHY_URL is set), else the value of DINGHY_URL, else option handling
\* fails with the usage error and no URL is set.
C5_ResolutionOrder ==
    (Handled /\ NoInfoOption /\ Len(argv.positional) <= 1) =>
        IF Len(argv.positional) = 1
        THEN uri = Ptr(argv.positional[1])
        ELSE IF env # NULL_STR
        THEN uri = env
        ELSE /\ status = EXIT_FAILURE
             /\ stderr = <<ERR_NO_URL>>
             /\ uri = NULL_STR
             /\ home_uri = NULL_STR

C5_Witness ==
    /\ Handled /\ NoInfoOption
    /\ Len(argv.positional) = 1
    /\ env # NULL_STR
    /\ env # Ptr(argv.positional[1])
    /\ uri = Ptr(argv.positional[1])
    /\ status = CONTINUE_STARTUP

\* C6 as claimed: more than one positional argument makes option handling
\* fail, whatever DINGHY_URL is and whatever other options are present.
C6_MultipleAlwaysFails ==
    (Handled /\ Len(argv.positional) > 1) => status = EXIT_FAILURE

\* C6 as amended: more than one positional argument makes option handling
\* fail with the more-than-one-URL error, whatever DINGHY_URL is, provided
\* neither --version nor --print-appid is given.
C6_MultipleFailsWithoutInfoOption ==
    (Handled /\ Len(argv.positional) > 1 /\ NoInfoOption) =>
        /\ status = EXIT_FAILURE
        /\ stderr = <<ERR_MULTIPLE>>
        /\ home_uri = NULL_STR
        /\ set_home_uri_calls = 0

C6_Witness ==
    /\ Handled /\ NoInfoOption
    /\ Len(argv.positional) > 1
    /\ env # NULL_STR
    /\ status = EXIT_FAILURE
    /\ stderr = <<ERR_MULTIPLE>>

\* C7: with --version or --print-appid option handling returns 0, resolves
\* no URL and hands none to the launcher, whatever the positional arguments
\* and DINGHY_URL are; --version wins over --print-appid, and --print-appid
\* prints the application id only when there is one.
C7_InfoOptionsExitZero ==
    (Handled /\ ~NoInfoOption) =>
        /\ status = EXIT_SUCCESS
        /\ uri = NULL_STR
        /\ home_uri = NULL_STR
        /\ set_home_uri_calls = 0
        /\ stderr = <<>>
        /\ stdout = IF "--version" \in argv.flags THEN <<DY_VERSION_STRING>>
                    ELSE IF appid # NULL_STR THEN <<appid[1]>>
                    ELSE <<>>

C7_Witness ==
    /\ Handled
    /\ argv.flags = {"--version", "--print-appid"}
    /\ Len(argv.positional) > 1
    /\ env # NULL_STR
    /\ appid # NULL_STR
    /\ status = EXIT_SUCCESS
    /\ stdout = <<DY_VERSION_STRING>>

\* The value the start URL is resolved from, when there is exactly one.
C8_HasValue ==
    Len(argv.positional) = 1 \/ (argv.positional = <<>> /\ env # NULL_STR)
C8_Value ==
    IF Len(argv.positional) = 1 THEN argv.positional[1]
    ELSE IF env # NULL_STR THEN env[1] ELSE <<>>

C8_IsExistingNativeFile ==
    LET file == g_file_new_for_commandline_arg(C8_Value)
    IN file.native /\ CollapsePath(file.path) \in fs

C8_IsValidText ==
    IF charset = "UTF-8" THEN g_utf8_validate(C8_Value, 1)
    ELSE IF charset = "ISO-8859-1" THEN TRUE
    ELSE \A i \in DOMAIN C8_Value : C8_Value[i] < 128

\* The code points of a UTF-8 string of one- and two-byte sequences.
RECURSIVE DecodeUtf8(_)
DecodeUtf8(s) ==
    IF s = <<>> THEN <<>>
    ELSE IF s[1] < 128 THEN <<s[1]>> \o DecodeUtf8(Tail(s))
    ELSE <<(s[1] - 192) * 64 + (s[2] - 128)>> \o DecodeUtf8(Tail(Tail(s)))

C8_TextUnchanged == home_uri = Ptr(C8_Value)

\* In ISO-8859-1 every byte is its own code point.
C8_TextConverted ==
    /\ home_uri # NULL_STR
    /\ g_utf8_validate(home_uri[1], 1)
    /\ IF charset = "ISO-8859-1"
       THEN DecodeUtf8(home_uri[1]) = C8_Value
       ELSE home_uri = Ptr(C8_Value)

C8_Cases(textCase) ==
    (Handled /\ NoInfoOption /\ C8_HasValue) =>
        IF C8_IsExistingNativeFile
        THEN /\ status = CONTINUE_STARTUP
             /\ home_uri =
                    Ptr(g_file_get_uri(g_file_new_for_commandline_arg(C8_Value)))
             /\ home_uri[1][1] = 102
        ELSE IF C8_IsValidText
        THEN /\ status = CONTINUE_STARTUP
             /\ textCase
        ELSE /\ status = EXIT_FAILURE
             /\ stderr = <<ERR_ENCODING>>
             /\ home_uri = NULL_STR

\* C8 as claimed: an existing native file gives its file URI; otherwise
\* valid text in the process's encoding gives that same string unchanged;
\* otherwise option handling fails with the encoding error.
C8_OpaqueTextUnchanged == C8_Cases(C8_TextUnchanged)

\* C8 as amended: an existing native file gives its file URI; otherwise
\* valid text in the process's encoding gives that text converted to UTF-8
\* (the same bytes when the encoding is UTF-8 or ASCII, re-encoded
\* otherwise); otherwise option handling fails with the encoding error.
C8_OpaqueTextAsUtf8 == C8_Cases(C8_TextConverted)

C8_Witness ==
    /\ Handled /\ NoInfoOption /\ C8_HasValue
    /\ ~C8_IsExistingNativeFile
    /\ charset = "ISO-8859-1"
    /\ status = CONTINUE_STARTUP
    /\ home_uri # Ptr(C8_Value)
    /\ DecodeUtf8(home_uri[1]) = C8_Value

\* C10: a URL is handed to the launcher exactly when option handling
\* returns the continue-startup value, and then exactly once; on every
\* path that returns an exit status the URL stays unset.
C10_UrlSetIffContinue ==
    /\ ~Handled => (home_uri = NULL_STR /\ set_home_uri_calls = 0)
    /\ Handled =>
           /\ status \in {CONTINUE_STARTUP, EXIT_SUCCESS, EXIT_FAILURE}
           /\ (status = CONTINUE_STARTUP) <=> (home_uri # NULL_STR)
           /\ set_home_uri_calls = IF status = CONTINUE_STARTUP THEN 1 ELSE 0

C10_Witness ==
    /\ Handled
    /\ status = CONTINUE_STARTUP
    /\ home_uri # NULL_STR
    /\ set_home_uri_calls = 1
    /\ s_options.arguments = <<>>

====
